---- MODULE Spec2Model ----
(***************************************************************************)
(* State machine of HomePage (src/page.tsx): the React state of the       *)
(* component, the network requests its async handlers have in flight, and *)
(* one action per handler step (a handler runs atomically from one await  *)
(* to the next on the single UI event loop).                              *)
(***************************************************************************)
EXTENDS Integers, Sequences, FiniteSets, Bags, TLC

\* ---------------------------------------------------------------- bounds
\* a click is not taken once this many listArticles requests are in flight or
\* due from a running handleRefresh
MaxInFlight == 2
\* handleRefresh invocations the model lets run at the same time
MaxRefreshCalls == 2
\* article images rendered in the grid
MaxImages == 3
\* error events handled per image
MaxImageErrors == 3

\* ------------------------------------------------------- value domains
\* totalPages values a /api/articles response may carry
TotalPagesValues == {1, 2}
\* category identifiers the backend knows (keys of categoryMap, page.tsx:147-157)
Categories == {"helse"}
\* category sets a /api/categories response may carry
CategorySets == {Categories}
\* totalArticles values a /api/stats response may carry
StatsValues == {7}
\* articlesAdded values a /api/refresh response may carry
AddedValues == {5}
\* a non-empty server-provided error message (data.error)
ServerMsg == "server error"
\* the messages fetchArticles sets itself
MsgCouldNotFetch == "Kunne ikke hente artikler"
MsgNetwork == "Nettverksfeil ved henting av artikler"

VARIABLES
    articles,          \* useState<Article[]>([]): the held page of articles
    stats,             \* useState<Stats|null>(null): <<>> is null, <<s>> a held value
    categories,        \* useState<string[]>([])
    selectedCategory,  \* useState('')
    loading,           \* useState(true)
    refreshing,        \* useState(false)
    currentPage,       \* useState(1)
    totalPages,        \* useState(1)
    error,             \* useState('')
    mounted,           \* whether the mount effect has run
    listReqs,          \* bag of the GET /api/articles requests in flight
    statsReqs,         \* bag of the GET /api/stats requests in flight
    categoriesReqs,    \* bag of the GET /api/categories requests in flight
    refreshReqs,       \* bag of the POST /api/refresh requests in flight
    ev,                \* the handler step that produced this state
    lastLoad,          \* how the most recently initiated fetchArticles call ended:
                       \* "none" before the first call, "pending", "ok", "failed"
    images             \* the DOM state of the article images of the grid

vars == <<articles, stats, categories, selectedCategory, loading, refreshing,
          currentPage, totalPages, error, mounted, listReqs, statsReqs,
          categoriesReqs, refreshReqs, ev, lastLoad, images>>

\* ------------------------------------------------------------- helpers
\* a bag with one more, or one less, copy of r
Put(bag, r) == bag (+) SetToBag({r})
Take(bag, r) == bag (-) SetToBag({r})

Min(a, b) == IF a <= b THEN a ELSE b

\* what runs after an awaited call returns: nothing, or the rest of handleRefresh
NoK == [kind |-> "none", added |-> 0]
RefreshK(n) == [kind |-> "refresh", added |-> n]

\* the record of a handler step:
\*   op        the handler step taken
\*   outcome   how the request settled: "ok", "error" (response not ok), "throw"
\*   latest    the settled listArticles request was the most recently initiated
\*   byRefresh the step belongs to a handleRefresh invocation
\*   prevPage  currentPage before a category or page click (0 otherwise)
\*   cat       the argument of handleCategoryChange
\*   alerts    the alert() calls of the step, in order
\*   msg       data.error of the listArticles response handled ("" when none)
Ev(op, outcome, latest, byRefresh, prevPage, cat, alerts) ==
    [op |-> op, outcome |-> outcome, latest |-> latest, byRefresh |-> byRefresh,
     prevPage |-> prevPage, cat |-> cat, alerts |-> alerts, msg |-> ""]

\* the articles the backend serves as a page of a category, tagged by both
ArticlesFor(page, cat) == <<[page |-> page, cat |-> cat]>>

\* responses of GET /api/articles to a request
ListResponses(req) ==
    {[outcome |-> "ok", articles |-> ArticlesFor(Min(req.page, tp), req.cat),
      totalPages |-> tp, currentPage |-> Min(req.page, tp), msg |-> ""] :
        tp \in TotalPagesValues}
    \cup {[outcome |-> "ok", articles |-> <<>>, totalPages |-> 1,
           currentPage |-> 1, msg |-> ""]}
    \cup {[outcome |-> "error", articles |-> <<>>, totalPages |-> 1,
           currentPage |-> 1, msg |-> m] : m \in {"", ServerMsg}}
    \cup {[outcome |-> "throw", articles |-> <<>>, totalPages |-> 1,
           currentPage |-> 1, msg |-> ""]}

\* responses of GET /api/stats
StatsResponses ==
    {[outcome |-> "ok", data |-> s] : s \in StatsValues}
    \cup {[outcome |-> o, data |-> 0] : o \in {"error", "throw"}}

\* responses of GET /api/categories
CategoriesResponses ==
    {[outcome |-> "ok", categories |-> cs] : cs \in CategorySets}
    \cup {[outcome |-> o, categories |-> {}] : o \in {"error", "throw"}}

\* responses of POST /api/refresh
RefreshResponses ==
    {[outcome |-> "ok", added |-> n, msg |-> ""] : n \in AddedValues}
    \cup {[outcome |-> "error", added |-> 0, msg |-> m] : m \in {"", ServerMsg}}
    \cup {[outcome |-> "throw", added |-> 0, msg |-> ""]}

\* listArticles requests in flight or still to be issued by a running handleRefresh
ListLoad == BagCardinality(listReqs) + BagCardinality(refreshReqs)

\* handleRefresh invocations that have not finished
ByRefresh(bag) ==
    LET rs == {r \in BagToSet(bag) : r.k.kind = "refresh"}
    IN  BagCardinality([r \in rs |-> bag[r]])
RefreshesRunning ==
    BagCardinality(refreshReqs) + ByRefresh(listReqs) + ByRefresh(statsReqs)

\* --------------------------------------------------------- fetchArticles
\* page.tsx:40-50: the request fetchArticles(page, category) puts in flight;
\* it becomes the most recently initiated one
Superseded(reqs) ==
    LET newest == {r \in BagToSet(reqs) : r.latest}
    IN  IF newest = {} THEN reqs
        ELSE LET r == CHOOSE x \in newest : TRUE
             IN  Put(Take(reqs, r), [r EXCEPT !.latest = FALSE])
IssueList(reqs, page, cat, k) ==
    Put(Superseded(reqs), [page |-> page, cat |-> cat, latest |-> TRUE, k |-> k])

\* page.tsx:53-57
ArticlesAfter(resp) == IF resp.outcome = "ok" THEN resp.articles ELSE articles
TotalPagesAfter(resp) == IF resp.outcome = "ok" THEN resp.totalPages ELSE totalPages
CurrentPageAfter(resp) == IF resp.outcome = "ok" THEN resp.currentPage ELSE currentPage

\* setError(data.error) without the generic message for a missing data.error
ErrorAfterNoFallback(resp) ==
    CASE resp.outcome = "ok" -> ""
      [] resp.outcome = "error" -> resp.msg
      [] OTHER -> MsgNetwork

\* page.tsx:57-62
ErrorAfter(resp) ==
    CASE resp.outcome = "ok" -> ""
      [] resp.outcome = "error" -> IF resp.msg # "" THEN resp.msg ELSE MsgCouldNotFetch
      [] OTHER -> MsgNetwork

\* setLoading(false) at the end of the try block instead of in finally
LoadingAfterInTry(resp) == IF resp.outcome = "throw" THEN loading ELSE FALSE

\* page.tsx:64-66
LoadingAfter(resp) == FALSE

\* ----------------------------------------------- fetchStats, fetchCategories
\* setStats(data) outside the response.ok test: a failure drops the held stats
StatsAfterUnchecked(resp) == IF resp.outcome = "ok" THEN <<resp.data>> ELSE <<>>

\* page.tsx:74-76
StatsAfter(resp) == IF resp.outcome = "ok" THEN <<resp.data>> ELSE stats

\* page.tsx:87-89
CategoriesAfter(resp) == IF resp.outcome = "ok" THEN resp.categories ELSE categories

\* --------------------------------------------------------- handleRefresh
\* the reload done whatever the response
ReloadAlways(resp) == TRUE

\* page.tsx:102: the reload branch is taken on response.ok
ReloadAfterRefresh(resp) == resp.outcome = "ok"

\* the reload asking for the category selected when triggerRefresh completes
ReloadCategoryCurrent(call) == selectedCategory

\* page.tsx:103: the arguments of the reload are the handler's closure values
ReloadPage(call) == call.page
ReloadCategory(call) == call.cat

\* fetchArticles not awaited: fetchStats is called in the same step
StatsReqsNoAwait(k) == Put(statsReqs, [k |-> k])

\* page.tsx:103-104: fetchStats is not called before the awaited fetchArticles returns
StatsReqsWithReload(k) == statsReqs

\* page.tsx:105
SuccessAlert(n) == [kind |-> "success", added |-> n, msg |-> ""]

\* page.tsx:107, 110
FailureAlert(resp) ==
    IF resp.outcome = "error"
    THEN [kind |-> "failed", added |-> 0, msg |-> resp.msg]
    ELSE [kind |-> "network", added |-> 0, msg |-> ""]

\* setRefreshing(false) at the end of the success branch instead of in finally
RefreshingAfterInTry(outcome) == IF outcome = "ok" THEN FALSE ELSE refreshing

\* fetchStats letting its failure through to the catch of handleRefresh
AlertAfterStatsThrowing(resp, n) ==
    IF resp.outcome = "ok" THEN SuccessAlert(n)
    ELSE [kind |-> "network", added |-> 0, msg |-> ""]

\* page.tsx:104-105: fetchStats catches its own failures, the alert follows it
AlertAfterStats(resp, n) == SuccessAlert(n)

\* page.tsx:112-114
RefreshingAfter(outcome) == FALSE

\* ------------------------------------------------------------ the view
\* page.tsx:212, 229-235 and 365, 373-379: where a refresh button is rendered
RefreshButtonShown == stats # <<>> \/ (~loading /\ Len(articles) = 0)

\* the buttons without the disabled attribute
RefreshButtonNeverDisabled == FALSE

\* page.tsx:231, 375
RefreshButtonDisabled == refreshing

\* page.tsx:244-263: the values the category filter can change to
CategoryChoices == (categories \cup {""}) \ {selectedCategory}

\* the next button without disabled={currentPage === totalPages}
PageButtonsNextAlways ==
    IF ~loading /\ Len(articles) > 0 /\ totalPages > 1
    THEN (IF currentPage # 1 THEN {currentPage - 1} ELSE {})
         \cup {currentPage + 1}
    ELSE {}

\* page.tsx:384-405: the pages the enabled pagination buttons ask for
PageButtons ==
    IF ~loading /\ Len(articles) > 0 /\ totalPages > 1
    THEN (IF currentPage # 1 THEN {currentPage - 1} ELSE {})
         \cup (IF currentPage # totalPages THEN {currentPage + 1} ELSE {})
    ELSE {}

\* ------------------------------------------------------- handleImageError
\* page.tsx:291-305: an article with an imageUrl gets an <img> showing it,
\* without data-fallback-attempted, visible, with no .image-fallback sibling;
\* an article without one gets the text placeholder and no <img>.
\*   errors, substitutions count the error events handled and the
\*   assignments to src
ImageOf(hasUrl) ==
    [hasUrl |-> hasUrl, fallbackAttempted |-> FALSE, src |-> "imageUrl",
     hidden |-> FALSE, placeholders |-> 0, errors |-> 0, substitutions |-> 0]
NoImage == ImageOf(FALSE)

\* handleImageError that does not record the attempt
ImageAfterErrorNoFlag(img) ==
    [img EXCEPT !.src = "fallback",
                !.substitutions = @ + 1,
                !.errors = @ + 1]

\* page.tsx:162-178
ImageAfterError(img) ==
    IF ~img.fallbackAttempted
    THEN [img EXCEPT !.fallbackAttempted = TRUE,
                     !.src = "fallback",
                     !.substitutions = @ + 1,
                     !.errors = @ + 1]
    ELSE [img EXCEPT !.hidden = TRUE,
                     !.placeholders = IF @ = 0 THEN 1 ELSE @,
                     !.errors = @ + 1]

Init ==
    /\ articles = <<>>
    /\ stats = <<>>
    /\ categories = {}
    /\ selectedCategory = ""
    /\ loading = TRUE
    /\ refreshing = FALSE
    /\ currentPage = 1
    /\ totalPages = 1
    /\ error = ""
    /\ mounted = FALSE
    /\ listReqs = EmptyBag
    /\ statsReqs = EmptyBag
    /\ categoriesReqs = EmptyBag
    /\ refreshReqs = EmptyBag
    /\ ev = Ev("init", "none", FALSE, FALSE, 0, "", <<>>)
    /\ lastLoad = "none"
    /\ images = [i \in 1..MaxImages |-> NoImage]

\* page.tsx:181-185: the mount effect
Mount ==
    /\ ~mounted
    /\ mounted' = TRUE
    /\ loading' = TRUE
    /\ listReqs' = IssueList(listReqs, 1, "", NoK)
    /\ statsReqs' = Put(statsReqs, [k |-> NoK])
    /\ categoriesReqs' = Put(categoriesReqs, [k |-> NoK])
    /\ ev' = Ev("mount", "none", TRUE, FALSE, 0, "", <<>>)
    /\ lastLoad' = "pending"
    /\ UNCHANGED <<articles, stats, categories, selectedCategory, refreshing,
                   currentPage, totalPages, error, refreshReqs, images>>

\* page.tsx:50-66: a listArticles request settles; when handleRefresh awaited
\* it, handleRefresh goes on to fetchStats (page.tsx:104)
fetchArticlesResponse(req, resp) ==
    /\ req \in BagToSet(listReqs)
    /\ resp \in ListResponses(req)
    /\ /\ listReqs' = Take(listReqs, req)
       /\ articles' = ArticlesAfter(resp)
       /\ totalPages' = TotalPagesAfter(resp)
       /\ currentPage' = CurrentPageAfter(resp)
       /\ error' = ErrorAfter(resp)
       /\ loading' = LoadingAfter(resp)
       /\ statsReqs' = IF req.k.kind = "refresh"
                       THEN Put(statsReqs, [k |-> req.k])
                       ELSE statsReqs
       /\ ev' = [Ev("listSettled", resp.outcome, req.latest,
                    req.k.kind = "refresh", 0, "", <<>>) EXCEPT !.msg = resp.msg]
       /\ lastLoad' = IF ~req.latest THEN lastLoad
                      ELSE IF resp.outcome = "ok" THEN "ok" ELSE "failed"
    /\ UNCHANGED <<stats, categories, selectedCategory, refreshing, mounted,
                   categoriesReqs, refreshReqs, images>>

\* page.tsx:70-80: a getStats request settles; when handleRefresh awaited it,
\* handleRefresh reports the count and clears refreshing (page.tsx:105, 112-114)
fetchStatsResponse(req, resp) ==
    /\ req \in BagToSet(statsReqs)
    /\ resp \in StatsResponses
    /\ /\ statsReqs' = Take(statsReqs, req)
       /\ stats' = StatsAfter(resp)
       /\ IF req.k.kind = "refresh"
          THEN /\ refreshing' = RefreshingAfter("ok")
               /\ ev' = Ev("statsSettled", resp.outcome, FALSE, TRUE, 0, "",
                           <<AlertAfterStats(resp, req.k.added)>>)
          ELSE /\ UNCHANGED refreshing
               /\ ev' = Ev("statsSettled", resp.outcome, FALSE, FALSE, 0, "", <<>>)
    /\ UNCHANGED <<articles, categories, selectedCategory, loading, currentPage,
                   totalPages, error, mounted, listReqs, categoriesReqs,
                   refreshReqs, lastLoad, images>>

\* page.tsx:83-93: a getCategories request settles
fetchCategoriesResponse(req, resp) ==
    /\ req \in BagToSet(categoriesReqs)
    /\ resp \in CategoriesResponses
    /\ categoriesReqs' = Take(categoriesReqs, req)
    /\ categories' = CategoriesAfter(resp)
    /\ ev' = Ev("categoriesSettled", resp.outcome, FALSE, FALSE, 0, "", <<>>)
    /\ UNCHANGED <<articles, stats, selectedCategory, loading, refreshing,
                   currentPage, totalPages, error, mounted, listReqs, statsReqs,
                   refreshReqs, lastLoad, images>>

\* page.tsx:96-99: a click on an enabled refresh button; the handler closes
\* over the currentPage and selectedCategory of the render it was created in
handleRefresh ==
    /\ mounted
    /\ RefreshButtonShown
    /\ ~RefreshButtonDisabled
    /\ RefreshesRunning < MaxRefreshCalls
    /\ ListLoad < MaxInFlight
    /\ refreshing' = TRUE
    /\ refreshReqs' = Put(refreshReqs,
                          [page |-> currentPage, cat |-> selectedCategory])
    /\ ev' = Ev("refresh", "none", FALSE, TRUE, 0, "", <<>>)
    /\ UNCHANGED <<articles, stats, categories, selectedCategory, loading,
                   currentPage, totalPages, error, mounted, listReqs, statsReqs,
                   categoriesReqs, lastLoad, images>>

\* page.tsx:99-114: the triggerRefresh request settles
handleRefreshResponse(call, resp) ==
    /\ call \in BagToSet(refreshReqs)
    /\ resp \in RefreshResponses
    /\ /\ refreshReqs' = Take(refreshReqs, call)
       /\ IF ReloadAfterRefresh(resp)
          THEN /\ loading' = TRUE
               /\ listReqs' = IssueList(listReqs, ReloadPage(call), ReloadCategory(call),
                                        RefreshK(resp.added))
               /\ statsReqs' = StatsReqsWithReload(RefreshK(resp.added))
               /\ UNCHANGED refreshing
               /\ ev' = Ev("refreshSettled", resp.outcome, FALSE, TRUE, 0, "", <<>>)
               /\ lastLoad' = "pending"
          ELSE /\ refreshing' = RefreshingAfter(resp.outcome)
               /\ ev' = Ev("refreshSettled", resp.outcome, FALSE, TRUE, 0, "",
                           <<FailureAlert(resp)>>)
               /\ UNCHANGED <<loading, listReqs, statsReqs, lastLoad>>
    /\ UNCHANGED <<articles, stats, categories, selectedCategory, currentPage,
                   totalPages, error, mounted, categoriesReqs, images>>

\* handleCategoryChange without setCurrentPage(1), asking for the page shown
handleCategoryChangeKeepPage(category) ==
    /\ mounted
    /\ category \in CategoryChoices
    /\ ListLoad < MaxInFlight
    /\ selectedCategory' = category
    /\ loading' = TRUE
    /\ listReqs' = IssueList(listReqs, currentPage, category, NoK)
    /\ ev' = Ev("setCategory", "none", TRUE, FALSE, currentPage, category, <<>>)
    /\ lastLoad' = "pending"
    /\ UNCHANGED <<articles, stats, categories, refreshing, currentPage, totalPages,
                   error, mounted, statsReqs, categoriesReqs, refreshReqs, images>>

\* page.tsx:118-122
handleCategoryChange(category) ==
    /\ mounted
    /\ category \in CategoryChoices
    /\ ListLoad < MaxInFlight
    /\ selectedCategory' = category
    /\ currentPage' = 1
    /\ loading' = TRUE
    /\ listReqs' = IssueList(listReqs, 1, category, NoK)
    /\ ev' = Ev("setCategory", "none", TRUE, FALSE, currentPage, category, <<>>)
    /\ lastLoad' = "pending"
    /\ UNCHANGED <<articles, stats, categories, refreshing, totalPages, error,
                   mounted, statsReqs, categoriesReqs, refreshReqs, images>>

\* handlePageChange asking for the page of the render it was created in
handlePageChangeStalePage(page) ==
    /\ mounted
    /\ page \in PageButtons
    /\ ListLoad < MaxInFlight
    /\ currentPage' = page
    /\ loading' = TRUE
    /\ listReqs' = IssueList(listReqs, currentPage, selectedCategory, NoK)
    /\ ev' = Ev("setPage", "none", TRUE, FALSE, currentPage, "", <<>>)
    /\ lastLoad' = "pending"
    /\ UNCHANGED <<articles, stats, categories, selectedCategory, refreshing,
                   totalPages, error, mounted, statsReqs, categoriesReqs,
                   refreshReqs, images>>

\* page.tsx:125-128
handlePageChange(page) ==
    /\ mounted
    /\ page \in PageButtons
    /\ ListLoad < MaxInFlight
    /\ currentPage' = page
    /\ loading' = TRUE
    /\ listReqs' = IssueList(listReqs, page, selectedCategory, NoK)
    /\ ev' = Ev("setPage", "none", TRUE, FALSE, currentPage, "", <<>>)
    /\ lastLoad' = "pending"
    /\ UNCHANGED <<articles, stats, categories, selectedCategory, refreshing,
                   totalPages, error, mounted, statsReqs, categoriesReqs,
                   refreshReqs, images>>

Next ==
    \/ Mount
    \/ \E req \in BagToSet(listReqs) : \E resp \in ListResponses(req) :
          fetchArticlesResponse(req, resp)
    \/ \E req \in BagToSet(statsReqs) : \E resp \in StatsResponses :
          fetchStatsResponse(req, resp)
    \/ \E req \in BagToSet(categoriesReqs) : \E resp \in CategoriesResponses :
          fetchCategoriesResponse(req, resp)
    \/ handleRefresh
    \/ \E call \in BagToSet(refreshReqs) : \E resp \in RefreshResponses :
          handleRefreshResponse(call, resp)
    \/ \E category \in CategoryChoices : handleCategoryChange(category)
    \/ \E page \in PageButtons : handlePageChange(page)

Spec == Init /\ [][Next]_vars

\* page.tsx:296: the error event of the <img> of article i
handleImageError(i) ==
    /\ images[i].hasUrl
    /\ images[i].errors < MaxImageErrors
    /\ images' = [images EXCEPT ![i] = ImageAfterError(images[i])]
    /\ ev' = Ev("imageError", "none", FALSE, FALSE, 0, "", <<>>)
    /\ UNCHANGED <<articles, stats, categories, selectedCategory, loading,
                   refreshing, currentPage, totalPages, error, mounted, listReqs,
                   statsReqs, categoriesReqs, refreshReqs, lastLoad>>

\* The DOM state of an <img> is read and written by handleImageError only,
\* and handleImageError touches no React state: the images are followed on
\* their own, from a grid rendered after the initial loads, each article with
\* or without an imageUrl.
ImageInit ==
    /\ articles = ArticlesFor(1, "")
    /\ stats = <<7>>
    /\ categories = Categories
    /\ selectedCategory = ""
    /\ loading = FALSE
    /\ refreshing = FALSE
    /\ currentPage = 1
    /\ totalPages = 1
    /\ error = ""
    /\ mounted = TRUE
    /\ listReqs = EmptyBag
    /\ statsReqs = EmptyBag
    /\ categoriesReqs = EmptyBag
    /\ refreshReqs = EmptyBag
    /\ ev = [Ev("listSettled", "ok", TRUE, FALSE, 0, "", <<>>) EXCEPT !.msg = ""]
    /\ lastLoad = "ok"
    /\ images \in [1..MaxImages -> {ImageOf(TRUE), ImageOf(FALSE)}]

ImageNext == \E i \in 1..MaxImages : handleImageError(i)

ImageSpec == ImageInit /\ [][ImageNext]_vars

\* ------------------------------------------------------------ properties
\* page.tsx:268-282: what the listing area shows
Status ==
    IF loading THEN "Loading" ELSE IF error # "" THEN "Failed" ELSE "Ready"

ListSettled == ev.op = "listSettled"
RefreshFailed == ev.op = "refreshSettled" /\ ev.outcome # "ok"
RefreshSucceeded == ev.op = "refreshSettled" /\ ev.outcome = "ok"

\* C1: once no listArticles request is in flight, the response applied last is
\* that of the most recently initiated request (a response that arrives after
\* a newer request's response is not applied over it).
C1_StaleResponseNotApplied ==
    (ListSettled /\ listReqs = EmptyBag) => ev.latest

\* C2: at most one handleRefresh invocation, hence one POST /api/refresh, is
\* running at any time, and refreshing is true for as long as it runs.
C2_RefreshCoalesced ==
    /\ RefreshesRunning <= 1
    /\ BagCardinality(refreshReqs) <= 1
    /\ RefreshesRunning = 1 => refreshing

C2_Witness ==
    /\ refreshing
    /\ BagCardinality(refreshReqs) = 1
    /\ RefreshButtonShown
    /\ ev.op = "setCategory"

\* C3: the step in which a listArticles request settles leaves loading false,
\* with the listing Ready after a success and Failed after a response that is
\* not ok or a transport failure.
C3_LoadSettles ==
    ListSettled =>
        /\ ~loading
        /\ Status \in {"Ready", "Failed"}
        /\ Status = "Ready" <=> ev.outcome = "ok"

C3_Witness ==
    /\ ListSettled
    /\ ev.outcome = "throw"
    /\ Status = "Failed"
    /\ selectedCategory = "helse"

\* C4: the reload a successful triggerRefresh issues asks for the currentPage
\* and selectedCategory held when triggerRefresh completes.
C4_ReloadUsesCurrentState ==
    RefreshSucceeded =>
        \A r \in BagToSet(listReqs) :
            r.k.kind = "refresh" => r.page = currentPage /\ r.cat = selectedCategory

\* C5: after handleCategoryChange(c) the selected category is c and the
\* current page is 1, whatever page was shown before.
C5_CategoryResetsPage ==
    ev.op = "setCategory" => selectedCategory = ev.cat /\ currentPage = 1

C5_Witness ==
    /\ ev.op = "setCategory"
    /\ ev.prevPage = 2
    /\ ev.cat = "helse"
    /\ selectedCategory = "helse"
    /\ currentPage = 1

\* C6: selectedCategory and currentPage change only in a handleCategoryChange
\* or handlePageChange step, never in a step that handles a network response.
C6_OnlyUserChangesFilterPage ==
    [][(selectedCategory' # selectedCategory \/ currentPage' # currentPage)
         => ev'.op \in {"setCategory", "setPage"}]_vars

\* C7: after a listArticles request fails the listing is Failed, holds no
\* articles and shows a non-empty error message.
C7_FailureClearsResult ==
    (ListSettled /\ ev.outcome # "ok") =>
        /\ Status = "Failed"
        /\ articles = <<>>
        /\ error # ""

\* C8: the step that handles a failed triggerRefresh calls alert exactly once,
\* with a failure message, changes none of articles, totalPages, currentPage,
\* error, loading and stats, and issues no listArticles or getStats request.
C8_RefreshFailureLeavesData ==
    [][(ev'.op = "refreshSettled" /\ ev'.outcome # "ok") =>
          /\ UNCHANGED <<articles, totalPages, currentPage, error, loading, stats>>
          /\ UNCHANGED <<listReqs, statsReqs>>
          /\ Len(ev'.alerts) = 1
          /\ ev'.alerts[1].kind \in {"failed", "network"}]_vars

C8_Witness ==
    /\ RefreshFailed
    /\ ev.outcome = "error"
    /\ Len(articles) > 0
    /\ stats # <<>>
    /\ Len(ev.alerts) = 1

\* C9: when no handleRefresh invocation is running any more (all its network
\* calls have completed), refreshing is false.
C9_RefreshingCleared ==
    RefreshesRunning = 0 => ~refreshing

C9_Witness ==
    /\ ev.op = "statsSettled"
    /\ ev.byRefresh
    /\ ev.outcome = "throw"
    /\ error # ""
    /\ RefreshesRunning = 0
    /\ ~refreshing

\* C10: a successful triggerRefresh issues the article reload and nothing
\* else; the stats reload is issued in the step in which the article reload
\* settles; the success alert is raised in the step in which the stats reload
\* settles; the two reloads of a refresh are never in flight together.
C10_RefreshSequence ==
    /\ RefreshSucceeded =>
          ByRefresh(listReqs) = 1 /\ ByRefresh(statsReqs) = 0 /\ ev.alerts = <<>>
    /\ (ListSettled /\ ev.byRefresh) =>
          ByRefresh(listReqs) = 0 /\ ByRefresh(statsReqs) = 1 /\ ev.alerts = <<>>
    /\ (ev.alerts # <<>> /\ ev.alerts[1].kind = "success") =>
          ev.op = "statsSettled" /\ ev.byRefresh /\ RefreshesRunning = 0
    /\ ~(ByRefresh(listReqs) > 0 /\ ByRefresh(statsReqs) > 0)

C10_Witness ==
    /\ ev.op = "statsSettled"
    /\ ev.byRefresh
    /\ ev.alerts = <<SuccessAlert(5)>>
    /\ ~refreshing

\* C11: a handleRefresh invocation keeps the currentPage and selectedCategory
\* of the click; after a successful triggerRefresh it issues exactly one
\* listArticles request, carrying that page and category, and no getStats
\* request yet; exactly one getStats request follows when that listArticles
\* request settles, and none when the getStats request settles.
C11_ReloadOnceWithClickState ==
    [][/\ ev'.op = "refresh" =>
             refreshReqs' = Put(refreshReqs, [page |-> currentPage,
                                              cat |-> selectedCategory])
       /\ (ev'.op = "refreshSettled" /\ ev'.outcome = "ok") =>
             /\ BagCardinality(listReqs') = BagCardinality(listReqs) + 1
             /\ ByRefresh(listReqs') = 1
             /\ statsReqs' = statsReqs
             /\ \A r \in BagToSet(listReqs') : r.k.kind = "refresh" =>
                   \E call \in BagToSet(refreshReqs) :
                       r.page = call.page /\ r.cat = call.cat
       /\ (ev'.op = "listSettled" /\ ev'.byRefresh) =>
             /\ BagCardinality(listReqs') = BagCardinality(listReqs) - 1
             /\ BagCardinality(statsReqs') = BagCardinality(statsReqs) + 1
             /\ ByRefresh(statsReqs') = 1
       /\ (ev'.op = "statsSettled" /\ ev'.byRefresh) =>
             /\ listReqs' = listReqs
             /\ BagCardinality(statsReqs') = BagCardinality(statsReqs) - 1
             /\ ByRefresh(statsReqs') = 0]_vars

C11_Witness ==
    /\ RefreshSucceeded
    /\ selectedCategory = "helse"
    /\ \E r \in BagToSet(listReqs) : r.k.kind = "refresh" /\ r.cat = "" /\ r.page = 1

\* C12: the step that handles a failed getStats or getCategories request
\* leaves stats and categories as held and changes none of articles,
\* totalPages, currentPage, error and loading, nor the listArticles requests
\* in flight.
C12_AuxiliaryFailureIsolated ==
    [][(ev'.op \in {"statsSettled", "categoriesSettled"} /\ ev'.outcome # "ok") =>
          /\ UNCHANGED <<stats, categories>>
          /\ UNCHANGED <<articles, totalPages, currentPage, error, loading>>
          /\ UNCHANGED listReqs]_vars

C12_Witness ==
    /\ ev.op = "statsSettled"
    /\ ev.outcome = "error"
    /\ stats = <<7>>
    /\ listReqs # EmptyBag
    /\ loading

\* requests of every kind in flight
InFlight ==
    BagCardinality(listReqs) + BagCardinality(statsReqs)
    + BagCardinality(categoriesReqs) + BagCardinality(refreshReqs)

\* the most recently initiated listArticles requests in flight, with multiplicity
Newest(reqs) ==
    LET rs == {r \in BagToSet(reqs) : r.latest}
    IN  BagCardinality([r \in rs |-> reqs[r]])

\* C14: a handleCategoryChange(c) step puts exactly one request in flight, a
\* listArticles request for page 1 of c, the state it leaves; a
\* handlePageChange(p) step puts exactly one request in flight, a listArticles
\* request for page p of the unchanged category; a listArticles request that
\* settles outside handleRefresh is followed by no further request, and the
\* number of requests in flight grows only in a mount, click or handleRefresh
\* step.
C14_OneRequestPerAction ==
    [][/\ ev'.op = "setCategory" =>
             /\ InFlight' = InFlight + 1
             /\ BagCardinality(listReqs') = BagCardinality(listReqs) + 1
             /\ Newest(listReqs') = 1
             /\ \A r \in BagToSet(listReqs') : r.latest =>
                   /\ r.page = 1 /\ r.cat = ev'.cat
                   /\ r.page = currentPage' /\ r.cat = selectedCategory'
       /\ ev'.op = "setPage" =>
             /\ InFlight' = InFlight + 1
             /\ BagCardinality(listReqs') = BagCardinality(listReqs) + 1
             /\ Newest(listReqs') = 1
             /\ selectedCategory' = selectedCategory
             /\ currentPage' \in PageButtons
             /\ \A r \in BagToSet(listReqs') : r.latest =>
                   r.page = currentPage' /\ r.cat = selectedCategory
       /\ (ev'.op = "listSettled" /\ ~ev'.byRefresh) => InFlight' = InFlight - 1
       /\ InFlight' > InFlight =>
             \/ ev'.op \in {"mount", "setCategory", "setPage", "refresh"}
             \/ ev'.byRefresh]_vars

C14_Witness ==
    /\ ev.op = "setPage"
    /\ currentPage = 2
    /\ selectedCategory = "helse"
    /\ \E r \in BagToSet(listReqs) : r.latest /\ r.page = 2 /\ r.cat = "helse"

\* C16: totalPages is at least 1 and currentPage lies in 1..totalPages in
\* every state, and a pagination click asks for a page in 1..totalPages.
C16_PageWithinRange ==
    /\ totalPages >= 1
    /\ 1 <= currentPage /\ currentPage <= totalPages
    /\ ev.op = "setPage" =>
          \A r \in BagToSet(listReqs) : r.latest => 1 <= r.page /\ r.page <= totalPages

C16_Witness ==
    /\ ListSettled
    /\ ev.outcome = "ok"
    /\ Len(articles) > 0
    /\ currentPage = 2
    /\ totalPages = 2
    /\ PageButtons = {1}

\* C17: a listArticles request that fails sets the error message by kind: the
\* server's message when the response is not ok and carries one, the
\* could-not-fetch message when it carries none, the network-failure message
\* when the fetch or the parse throws; never the empty message.
C17_ErrorMessageByKind ==
    (ListSettled /\ ev.outcome # "ok") =>
        /\ error # ""
        /\ (ev.outcome = "error" /\ ev.msg # "") => error = ev.msg
        /\ (ev.outcome = "error" /\ ev.msg = "") => error = MsgCouldNotFetch
        /\ ev.outcome = "throw" => error = MsgNetwork

C17_Witness ==
    /\ ListSettled
    /\ ev.outcome = "error"
    /\ ev.msg = ""
    /\ error = MsgCouldNotFetch
    /\ Status = "Failed"

\* C18: whenever a listArticles request is in flight, loading is true.
C18_LoadingWhileInFlight ==
    listReqs # EmptyBag => loading

\* C20: once triggerRefresh has succeeded, a reload that fails changes nothing
\* of the sequence: the stats reload is issued when the article reload
\* settles, whatever its outcome; the success alert with articlesAdded is
\* raised when the stats reload settles, whatever its outcome; a failure alert
\* is raised only by a failed triggerRefresh.
C20_ReloadFailureNotReported ==
    /\ (ListSettled /\ ev.byRefresh) =>
          ByRefresh(statsReqs) = 1 /\ refreshing /\ ev.alerts = <<>>
    /\ (ev.op = "statsSettled" /\ ev.byRefresh) =>
          \E n \in AddedValues : ev.alerts = <<SuccessAlert(n)>>
    /\ \A i \in 1..Len(ev.alerts) :
          ev.alerts[i].kind \in {"failed", "network"} => RefreshFailed

C20_Witness ==
    /\ ev.op = "statsSettled"
    /\ ev.byRefresh
    /\ ev.outcome = "error"
    /\ error = MsgNetwork
    /\ ev.alerts = <<SuccessAlert(5)>>

\* C15: whenever no listArticles request is in flight, the error message is
\* non-empty exactly when the most recently initiated load failed.
C15_ErrorMatchesLastLoad ==
    (listReqs = EmptyBag /\ lastLoad # "none") =>
        (error # "" <=> lastLoad = "failed")

\* C19: in a state with no listArticles request and no handleRefresh in
\* flight whose listing is Ready, the articles held are those served for the
\* selected category and the current page (or none).
C19_ListingMatchesSelection ==
    (mounted /\ listReqs = EmptyBag /\ RefreshesRunning = 0 /\ Status = "Ready") =>
        articles \in {<<>>, ArticlesFor(currentPage, selectedCategory)}

\* page.tsx:162-178, 291-305: the stage of the fallback chain an image is in
Stage(img) ==
    IF ~img.hasUrl \/ img.hidden THEN "FallbackPlaceholder"
    ELSE IF img.fallbackAttempted THEN "FallbackImage"
    ELSE "Primary"

\* C13: the stage of an image is fixed by the number of load failures handled:
\* Primary before the first, FallbackImage after exactly one, and
\* FallbackPlaceholder after two or more; the src is substituted at most
\* once and at most one placeholder is added, however many failures follow.
C13_ImageFallbackForward ==
    \A i \in 1..MaxImages :
        LET img == images[i] IN
        /\ img.substitutions <= 1
        /\ img.placeholders <= 1
        /\ ~img.hasUrl => Stage(img) = "FallbackPlaceholder" /\ img.errors = 0
        /\ (img.hasUrl /\ img.errors = 0) =>
              Stage(img) = "Primary" /\ img.src = "imageUrl"
        /\ img.errors = 1 =>
              Stage(img) = "FallbackImage" /\ img.src = "fallback"
              /\ img.substitutions = 1 /\ img.placeholders = 0
        /\ img.errors >= 2 =>
              Stage(img) = "FallbackPlaceholder" /\ img.src = "fallback"
              /\ img.substitutions = 1 /\ img.placeholders = 1

C13_Witness ==
    \E i \in 1..MaxImages :
        /\ images[i].errors = 3
        /\ Stage(images[i]) = "FallbackPlaceholder"
        /\ images[i].placeholders = 1
        /\ images[i].substitutions = 1
====
